---- MODULE Spec2Model ----
(***************************************************************************)
(* The websocket front end of the store (internal/server/websocketServer.go)*)
(* as a state machine: one Dispatch Loop (WebsocketHandler) per accepted    *)
(* connection, one Fan-out Task (processQwatchUpdates) per QWATCH/SUBSCRIBE,*)
(* the write helper WriteResponseWithRetries that both of them call, the    *)
(* channels they share, and the two supervisory goroutines of Run.          *)
(***************************************************************************)
EXTENDS Naturals, Sequences, FiniteSets, TLC

\* ------------------------------------------------------------------ bounds
NumConns == 2        \* connections that may be accepted
MaxFrames == 2       \* frames read by all Dispatch Loops together
MaxEvents == 1       \* update events the store emits
MaxRetriesCfg == 3   \* largest configured MaxWriteResponseRetries

\* Every Fan-out Task is spawned by a frame.
MaxSubs == MaxFrames

Conns == 1..NumConns
FanIds == 1..MaxSubs
Tasks == ({"d"} \X Conns) \cup ({"f"} \X FanIds)

\* --------------------------------------------------------------- constants
QWatch == "QWATCH"
Subscribe == "SUBSCRIBE"
Qunwatch == "QUNWATCH"
Abort == "ABORT"
Get == "GET"

\* Mutant: QUNWATCH is missing from the table.
unimplementedNothing == {}

unimplementedCommandsWebsocket == {Qunwatch}

\* What conn.ReadMessage hands to the loop: an error, a frame the parser finds
\* empty or malformed, or a command by its name.
NoFrame == "none"
ReadError == "read error"
EmptyFrame == "empty"
BadFrame == "malformed"
Commands == {Abort, QWatch, Subscribe, Qunwatch, Get}
Frames == {ReadError, EmptyFrame, BadFrame} \cup Commands

\* The registry of migrated commands, consulted by processResponse.
WorkerCmdsMeta == {Get}

BackoffStepMs == 100
JitterMs == 50

ReadFailedNotice == "error: command reading failed"
ParseFailedNotice == "error: parsing failed"
NotImplementedNotice == "Command is not implemented with Websocket"
InternalErrorNotice == "error: 500 Internal Server Error"
MarshalErrorNotice == "error: marshaling json"

VARIABLES
    maxRetries,    \* config.DiceConfig.WebSocket.MaxWriteResponseRetries
    shutdownChan,  \* "open" or "closed"
    closeCalls,    \* how many times close(s.shutdownChan) has been executed
    ctx,           \* the context Run was given: "live" or "cancelled"
    listener,      \* the http.Server's listener: "open" or "closed"
    watcherPc,     \* Run's first goroutine: "select", "shutdown", "done"
    servePc,       \* Run's second goroutine: "serve", "done"
    runPc,         \* Run itself: "wait", "returned"
    err,           \* Run's local err, written by both goroutines
    peer,          \* each connection's client: "up", or "gone" for good
    pc,            \* position of each connection's Dispatch Loop
    msg,           \* what conn.ReadMessage last returned to the loop
    sp,            \* the StoreOp the Dispatch Loop built for the current frame
    resp,          \* per task: the response it is passing to processResponse
    h,             \* per task: the running call of WriteResponseWithRetries
    fan,           \* the Fan-out Tasks spawned so far, in spawn order
    ReqChan,       \* shard 0's inbound queue
    ioChan,        \* s.ioChan, the queue registered for worker "wsServer"
    registered,    \* client identifiers the shard layer has registered
    minted,        \* which connection's command minted which client identifier
    dropped,       \* identifiers of update events consumed without a write
    framesLeft,    \* frames the clients may still send
    eventsLeft     \* update events the store may still emit

vars == <<maxRetries, shutdownChan, closeCalls, ctx, listener, watcherPc, servePc,
          runPc, err, peer, pc, msg, sp, resp, h,
          fan, ReqChan, ioChan, registered, minted,
          dropped, framesLeft, eventsLeft>>

runVars == <<ctx, listener, watcherPc, servePc, runPc, err>>
loopVars == <<pc, msg, sp>>
chanVars == <<ReqChan, ioChan, registered>>
budgetVars == <<framesLeft, eventsLeft>>
histVars == <<minted, dropped>>

\* ------------------------------------------------------- transport errors
\* What conn.WriteMessage may return, by the properties the helper inspects:
\* op   - errors.As(err, *net.OpError) succeeds
\* sys  - the OpError wraps an *os.SyscallError
\* call - the SyscallError's Syscall
Err(op, sys, call, errno) == [op |-> op, sys |-> sys, call |-> call, errno |-> errno]
NoErr == Err(FALSE, FALSE, "", "nil")
ErrCloseSent == Err(FALSE, FALSE, "", "close sent")
ErrTimeout == Err(TRUE, FALSE, "", "i/o timeout")
ErrNotWrite == Err(TRUE, TRUE, "writev", "EAGAIN")
EPIPE == Err(TRUE, TRUE, "write", "EPIPE")
ECONNRESET == Err(TRUE, TRUE, "write", "ECONNRESET")
ENOBUFS == Err(TRUE, TRUE, "write", "ENOBUFS")
EAGAIN == Err(TRUE, TRUE, "write", "EAGAIN")
EINVAL == Err(TRUE, TRUE, "write", "EINVAL")

WriteErrs == {ErrCloseSent, ErrTimeout, ErrNotWrite, EPIPE, ECONNRESET, ENOBUFS,
              EAGAIN, EINVAL}
WriteOutcomes == {NoErr} \cup WriteErrs
\* rand.Intn(JitterMs): the least and the greatest jitter.
Jitters == {0, JitterMs - 1}

\* What the server specification draws from: one write outcome of each class
\* the helper's callers can tell apart (written, retried, failed), and the
\* retry budgets under which each of them occurs.
LoopWriteOutcomes == {NoErr, EAGAIN, EPIPE}
LoopJitters == {0}
LoopDeadlines == {TRUE}
LoopRetryConfigs == {0, 1}

\* ------------------------------------------------ WriteResponseWithRetries
NoText == [body |-> "", kind |-> "none", n |-> 0]
Notice(body) == [body |-> body, kind |-> "notice", n |-> 0]

Idle == [status |-> "idle", text |-> NoText, attempts |-> 0, ret |-> "",
         lastErr |-> NoErr, written |-> FALSE, calls |-> 0, eagains |-> 0,
         sleeps |-> <<>>, backoff |-> 0]

\* Mutant: a spent retry budget is reported to the caller as an error.
LoopHeadEscalates(c, maxR, deadlineOk) ==
    IF c.attempts < maxR
    THEN IF deadlineOk
         THEN [c EXCEPT !.status = "writing", !.calls = @ + 1]
         ELSE [c EXCEPT !.status = "ret", !.ret = "deadline"]
    ELSE [c EXCEPT !.status = "ret", !.ret = "retries exhausted"]

\* The loop condition and SetWriteDeadline: the call is inside WriteMessage
\* next, or it returns.
LoopHead(c, maxR, deadlineOk) ==
    IF c.attempts < maxR
    THEN IF deadlineOk
         THEN [c EXCEPT !.status = "writing", !.calls = @ + 1]
         ELSE [c EXCEPT !.status = "ret", !.ret = "deadline"]
    ELSE [c EXCEPT !.status = "ret", !.ret = "nil"]

\* Entry: attempts := 0.  calls, eagains and sleeps record what the call did.
WriteResponseWithRetries(text, maxR, deadlineOk) ==
    LoopHead([Idle EXCEPT !.text = text], maxR, deadlineOk)

\* Mutant: the delay does not grow with the attempt.
backoffFlat(attempts) == BackoffStepMs

backoffBase(attempts) == (attempts + 1) * BackoffStepMs

\* Mutant: a broken pipe and a peer reset are retried like EAGAIN.
ClassifyRetryingResets(c, e, jitter) ==
    IF e = NoErr THEN [c EXCEPT !.status = "ret", !.ret = "nil", !.written = TRUE]
    ELSE IF e.op /\ e.sys /\ e.call = "write"
              /\ e.errno \in {"EAGAIN", "EPIPE", "ECONNRESET"}
    THEN [c EXCEPT !.status = "sleep", !.lastErr = e, !.eagains = @ + 1,
                   !.backoff = backoffBase(c.attempts) + jitter,
                   !.sleeps = Append(@, backoffBase(c.attempts))]
    ELSE [c EXCEPT !.status = "ret", !.ret = "write error", !.lastErr = e]

\* conn.WriteMessage returned e: break, return an error, or sleep.
Classify(c, e, jitter) ==
    LET fail(why) == [c EXCEPT !.status = "ret", !.ret = why, !.lastErr = e] IN
    IF e = NoErr THEN [c EXCEPT !.status = "ret", !.ret = "nil", !.written = TRUE]
    ELSE IF ~e.op THEN fail("error writing message")
    ELSE IF ~e.sys THEN fail("network operation error")
    ELSE IF e.call # "write" THEN fail("unexpected syscall error")
    ELSE CASE e.errno = "EPIPE" -> fail("broken pipe")
           [] e.errno = "ECONNRESET" -> fail("connection reset by peer")
           [] e.errno = "ENOBUFS" -> fail("no buffer space available")
           [] e.errno = "EAGAIN" ->
                [c EXCEPT !.status = "sleep", !.lastErr = e, !.eagains = @ + 1,
                          !.backoff = backoffBase(c.attempts) + jitter,
                          !.sleeps = Append(@, backoffBase(c.attempts))]
           [] OTHER -> fail("write error")

\* time.Sleep is over: continue, which runs attempts++ and the loop head.
Wake(c, maxR, deadlineOk) ==
    LoopHead([c EXCEPT !.attempts = @ + 1, !.backoff = 0], maxR, deadlineOk)

TaskConn(t) == IF t[1] = "d" THEN t[2] ELSE fan[t[2]].conn
TaskLive(t) == t[1] = "d" \/ t[2] <= Len(fan)

\* The tasks inside a framed write on connection c's transport: a helper call
\* inside conn.WriteMessage, or the handler writing its close frame.  Nothing
\* in the code serializes them.
Writers(c) ==
    {t \in Tasks : TaskLive(t) /\ TaskConn(t) = c /\ h[t].status = "writing"}
      \cup (IF pc[c] = "closing" THEN {<<"d", c>>} ELSE {})

\* A write on a transport that conn.Close() has released cannot succeed.
Possible(t, outcomes) ==
    IF pc[TaskConn(t)] = "closed" THEN outcomes \ {NoErr, EAGAIN} ELSE outcomes

\* conn.WriteMessage returns to the helper.
HelperWrite(t, outcomes, jitters) ==
    /\ TaskLive(t)
    /\ h[t].status = "writing"
    /\ \E e \in Possible(t, outcomes), j \in jitters :
         h' = [h EXCEPT ![t] = Classify(@, e, j)]
    /\ UNCHANGED <<maxRetries, peer, resp, shutdownChan, closeCalls, runVars, loopVars, fan,
                   chanVars, histVars, budgetVars>>

\* The backoff sleep of the helper ends.
HelperWake(t, deadlines) ==
    /\ TaskLive(t)
    /\ h[t].status = "sleep"
    /\ \E ok \in deadlines : h' = [h EXCEPT ![t] = Wake(@, maxRetries, ok)]
    /\ UNCHANGED <<maxRetries, peer, resp, shutdownChan, closeCalls, runVars, loopVars, fan,
                   chanVars, histVars, budgetVars>>

\* --------------------------------------------------------- processResponse
Val(t, i, str) == [t |-> t, i |-> i, s |-> str]
NoVal == Val("nil", 0, "")

\* clientio.RespType codes index respArr (Go indexes from 0).
respArr == <<"(nil)", "OK", "QUEUED", "0", "1", "-1", "-2", "*0">>

\* What each code stands for, as the comments on respArr say: a RESP Nil Bulk
\* String, the Simple Strings OK and QUEUED, the RESP Integers 0, 1, -1, -2 and
\* the empty RESP Array.  An unmigrated command's result carries these bytes.
RespEncoding == <<"$-1\r\n", "+OK\r\n", "+QUEUED\r\n", ":0\r\n", ":1\r\n", ":-1\r\n",
                  ":-2\r\n", "*0\r\n">>

\* clientio.RESPParser.DecodeOne on the encodings the store sends here: a
\* simple or bulk string decodes to a string (the nil bulk string to "(nil)"),
\* an integer to an int64 (s holds its decimal digits), an array to a slice.
DecodeOne(bytes) ==
    CASE bytes = "+OK\r\n" -> [ok |-> TRUE, val |-> Val("string", 0, "OK")]
      [] bytes = "+QUEUED\r\n" -> [ok |-> TRUE, val |-> Val("string", 0, "QUEUED")]
      [] bytes = "$1\r\nv\r\n" -> [ok |-> TRUE, val |-> Val("string", 0, "v")]
      [] bytes = "$-1\r\n" -> [ok |-> TRUE, val |-> Val("string", 0, "(nil)")]
      [] bytes = ":0\r\n" -> [ok |-> TRUE, val |-> Val("int64", 0, "0")]
      [] bytes = ":1\r\n" -> [ok |-> TRUE, val |-> Val("int64", 0, "1")]
      [] bytes = ":-1\r\n" -> [ok |-> TRUE, val |-> Val("int64", 0, "-1")]
      [] bytes = ":-2\r\n" -> [ok |-> TRUE, val |-> Val("int64", 0, "-2")]
      [] bytes = "*0\r\n" -> [ok |-> TRUE, val |-> Val("slice", 0, "")]
      [] OTHER -> [ok |-> FALSE, val |-> NoVal]

\* json.Marshal: a string is quoted, an integer is its digits, an empty slice
\* is [], a func value cannot be serialized.
jsonMarshal(v) ==
    CASE v.t = "string" -> [ok |-> TRUE, bytes |-> "\"" \o v.s \o "\""]
      [] v.t = "int64" -> [ok |-> TRUE, bytes |-> v.s]
      [] v.t = "slice" -> [ok |-> TRUE, bytes |-> "[]"]
      [] OTHER -> [ok |-> FALSE, bytes |-> ""]

\* The text processResponse hands to the write helper, and whether a failed
\* write of it is returned to the caller (fatal) or dropped (return nil).
processResponse(cmd, response) ==
    LET notice(body) == [text |-> Notice(body), fatal |-> FALSE]
        migrated == cmd \in WorkerCmdsMeta
        dec == IF response.error # "" THEN DecodeOne(response.error)
               ELSE DecodeOne(response.result.s)
        v1 == IF ~migrated THEN dec.val
              ELSE IF response.error # "" THEN Val("string", 0, response.error)
              ELSE response.result
        v2 == IF v1.t = "RespType" THEN Val("string", 0, respArr[v1.i + 1]) ELSE v1
        v3 == IF v2.t = "bytes" THEN Val("string", 0, v2.s) ELSE v2
        js == jsonMarshal(v3)
    IN  IF response.type \notin {"QwatchResponse", "StoreResponse"}
        THEN notice(InternalErrorNotice)
        ELSE IF ~migrated /\ ~dec.ok THEN notice(InternalErrorNotice)
        ELSE IF ~js.ok THEN notice(MarshalErrorNotice)
        ELSE [text |-> [body |-> js.bytes, kind |-> response.kind, n |-> response.n],
              fatal |-> TRUE]

\* ------------------------------------------------------- the shard layer
\* What shard 0 answers: a migrated command yields a native value, a legacy
\* one RESP bytes; each has one value the transcoder cannot handle.
ShardResults(cmd) ==
    IF cmd \in WorkerCmdsMeta
    THEN {Val("RespType", 1, ""), Val("func", 0, "")}
    ELSE {Val("bytes", 0, "+OK\r\n"), Val("bytes", 0, "?")}

UpdateResults == {Val("bytes", 0, "$1\r\nv\r\n")}

\* A task that is not inside processResponse holds no response.
NoResp == [type |-> "", result |-> NoVal, error |-> "", kind |-> "", n |-> 0]

NoReq == [Cmd |-> "", WorkerID |-> "", ShardID |-> 0, WebsocketOp |-> FALSE,
          Client |-> 0, from |-> 0]

\* generateUniqueInt32: a process-unique identifier per subscription.
generateUniqueInt32 == Len(fan) + 1

\* ----------------------------------------------------------------- init
Init ==
    /\ maxRetries \in LoopRetryConfigs
    /\ shutdownChan = "open"
    /\ closeCalls = 0
    /\ ctx = "live"
    /\ listener = "open"
    /\ watcherPc = "select"
    /\ servePc = "serve"
    /\ runPc = "wait"
    /\ err = "nil"
    /\ pc = [c \in Conns |-> "new"]
    /\ peer = [c \in Conns |-> "up"]
    /\ msg = [c \in Conns |-> NoFrame]
    /\ sp = [c \in Conns |-> NoReq]
    /\ resp = [t \in Tasks |-> NoResp]
    /\ h = [t \in Tasks |-> Idle]
    /\ fan = <<>>
    /\ ReqChan = <<>>
    /\ ioChan = <<>>
    /\ registered = {}
    /\ minted = {}
    /\ dropped = {}
    /\ framesLeft = MaxFrames
    /\ eventsLeft = MaxEvents

\* ------------------------------------------------------------------- Run
\* The shutdown watcher's select fires on the closed shutdownChan.
WatcherSelect ==
    /\ watcherPc = "select" /\ shutdownChan = "closed"
    /\ err' = "ErrAborted"
    /\ watcherPc' = "shutdown"
    /\ UNCHANGED <<maxRetries, peer, resp, shutdownChan, closeCalls, ctx, listener, servePc,
                   runPc, loopVars, h, fan, chanVars, histVars, budgetVars>>

\* The shutdown watcher's select fires on ctx.Done(): err is left as it is.
WatcherCtxDone ==
    /\ watcherPc = "select" /\ ctx = "cancelled"
    /\ watcherPc' = "shutdown"
    /\ UNCHANGED <<maxRetries, peer, resp, shutdownChan, closeCalls, ctx, listener, servePc,
                   runPc, err, loopVars, h, fan, chanVars, histVars, budgetVars>>

\* s.websocketServer.Shutdown closes the listener; hijacked connections are
\* not the http.Server's to close.
WatcherShutdown ==
    /\ watcherPc = "shutdown"
    /\ listener' = "closed"
    /\ watcherPc' = "done"
    /\ UNCHANGED <<maxRetries, peer, resp, shutdownChan, closeCalls, ctx, servePc, runPc, err,
                   loopVars, h, fan, chanVars, histVars, budgetVars>>

\* ListenAndServe returns once the listener is closed.
ServeReturns ==
    /\ servePc = "serve" /\ listener = "closed"
    /\ err' = "ErrServerClosed"
    /\ servePc' = "done"
    /\ UNCHANGED <<maxRetries, peer, resp, shutdownChan, closeCalls, ctx, listener, watcherPc,
                   runPc, loopVars, h, fan, chanVars, histVars, budgetVars>>

\* ListenAndServe returns an error of the listener's own (the port is taken,
\* Accept fails for good): nothing is accepted any more.
ServeFails ==
    /\ servePc = "serve" /\ listener = "open"
    /\ err' = "listen error"
    /\ listener' = "closed"
    /\ servePc' = "done"
    /\ UNCHANGED <<maxRetries, peer, resp, shutdownChan, closeCalls, ctx, watcherPc, runPc,
                   loopVars, h, fan, chanVars, histVars, budgetVars>>

\* The caller of Run cancels ctx.
CtxCancel ==
    /\ ctx = "live" /\ runPc = "wait"
    /\ ctx' = "cancelled"
    /\ UNCHANGED <<maxRetries, peer, resp, shutdownChan, closeCalls, listener, watcherPc, servePc,
                   runPc, err, loopVars, h, fan, chanVars, histVars, budgetVars>>

\* wg.Wait() is over: return err.
RunReturns ==
    /\ runPc = "wait" /\ watcherPc = "done" /\ servePc = "done"
    /\ runPc' = "returned"
    /\ UNCHANGED <<maxRetries, peer, resp, shutdownChan, closeCalls, ctx, listener, watcherPc,
                   servePc, err, loopVars, h, fan, chanVars, histVars, budgetVars>>

\* --------------------------------------------------------- Dispatch Loop
\* Connections are numbered in the order the listener accepts them.
Accepts(c) ==
    /\ listener = "open" /\ pc[c] = "new"
    /\ \A b \in Conns : b < c => pc[b] # "new"

\* Upgrade succeeds: the handler enters its read loop.
Accept(c) ==
    /\ Accepts(c)
    /\ pc' = [pc EXCEPT ![c] = "read"]
    /\ UNCHANGED <<maxRetries, peer, resp, shutdownChan, closeCalls, runVars, msg, sp, h, fan,
                   chanVars, histVars, budgetVars>>

\* Upgrade fails: the handler returns before the deferred handshake is set up.
UpgradeFails(c) ==
    /\ Accepts(c)
    /\ pc' = [pc EXCEPT ![c] = "failed"]
    /\ UNCHANGED <<maxRetries, peer, resp, shutdownChan, closeCalls, runVars, msg, sp, h, fan,
                   chanVars, histVars, budgetVars>>

\* conn.ReadMessage returns: an error, or a frame that the parser will find
\* empty, malformed, or a command.
ReadMessage(c, f) ==
    /\ pc[c] = "read" /\ peer[c] = "up" /\ framesLeft > 0
    /\ framesLeft' = framesLeft - 1
    /\ pc' = [pc EXCEPT ![c] = "got"]
    /\ msg' = [msg EXCEPT ![c] = f]
    /\ UNCHANGED <<maxRetries, peer, resp, shutdownChan, closeCalls, runVars, sp, h, fan,
                   chanVars, histVars, eventsLeft>>

\* The client of an accepted connection goes away for good.
Disconnect(c) ==
    /\ peer[c] = "up" /\ pc[c] \notin {"new", "failed", "closed"}
    /\ peer' = [peer EXCEPT ![c] = "gone"]
    /\ UNCHANGED <<maxRetries, shutdownChan, closeCalls, runVars, loopVars, resp, h,
                   fan, chanVars, histVars, budgetVars>>

\* conn.ReadMessage on a connection whose client is gone: every read fails.
ReadOnDead(c) ==
    /\ pc[c] = "read" /\ peer[c] = "gone"
    /\ pc' = [pc EXCEPT ![c] = "got"]
    /\ msg' = [msg EXCEPT ![c] = ReadError]
    /\ UNCHANGED <<maxRetries, peer, shutdownChan, closeCalls, runVars, sp, resp, h,
                   fan, chanVars, histVars, budgetVars>>

\* The loop handles what it read.
Handles(c) ==
    /\ pc[c] = "got"
    /\ UNCHANGED msg

\* A helper call by the loop whose result the loop ignores.
Notify(c, body) ==
    /\ pc' = [pc EXCEPT ![c] = "notify"]
    /\ \E ok \in LoopDeadlines :
         h' = [h EXCEPT ![<<"d", c>>] =
                  WriteResponseWithRetries(Notice(body), maxRetries, ok)]

\* conn.ReadMessage failed.
ReadFails(c) ==
    /\ Handles(c) /\ msg[c] = ReadError
    /\ Notify(c, ReadFailedNotice)
    /\ UNCHANGED <<maxRetries, peer, resp, shutdownChan, closeCalls, runVars, sp, fan, chanVars,
                   histVars, budgetVars>>

\* Mutant: an empty command is answered like any other parse failure.
EmptyCommandAnswered(c) ==
    /\ Handles(c) /\ msg[c] = EmptyFrame
    /\ Notify(c, ParseFailedNotice)
    /\ UNCHANGED <<maxRetries, peer, resp, shutdownChan, closeCalls, runVars, sp, fan,
                   chanVars, histVars, budgetVars>>

\* ParseWebsocketMessage returns ErrEmptyCommand.
EmptyCommand(c) ==
    /\ Handles(c) /\ msg[c] = EmptyFrame
    /\ pc' = [pc EXCEPT ![c] = "read"]
    /\ UNCHANGED <<maxRetries, peer, resp, shutdownChan, closeCalls, runVars, sp, h, fan,
                   chanVars, histVars, budgetVars>>

\* ParseWebsocketMessage returns another error.
ParseFails(c) ==
    /\ Handles(c) /\ msg[c] = BadFrame
    /\ Notify(c, ParseFailedNotice)
    /\ UNCHANGED <<maxRetries, peer, resp, shutdownChan, closeCalls, runVars, sp, fan, chanVars,
                   histVars, budgetVars>>

\* ABORT: close(s.shutdownChan) and break.  Closing a closed channel panics;
\* the panic unwinds the handler through its deferred closing handshake.
AbortCmd(c) ==
    /\ Handles(c) /\ msg[c] = Abort
    /\ closeCalls' = closeCalls + 1
    /\ shutdownChan' = "closed"
    /\ pc' = [pc EXCEPT ![c] = "defer"]
    /\ UNCHANGED <<maxRetries, peer, resp, runVars, sp, h, fan, chanVars, histVars, budgetVars>>

\* A command of unimplementedCommandsWebsocket.
Unimplemented(c) ==
    /\ Handles(c) /\ msg[c] \in unimplementedCommandsWebsocket
    /\ Notify(c, NotImplementedNotice)
    /\ UNCHANGED <<maxRetries, peer, resp, shutdownChan, closeCalls, runVars, sp, fan, chanVars,
                   histVars, budgetVars>>

StoreOp(cmd, c, client) ==
    [Cmd |-> cmd, WorkerID |-> "wsServer", ShardID |-> 0, WebsocketOp |-> TRUE,
     Client |-> client, from |-> c]

IsWatch(cmd) == cmd = QWatch \/ cmd = Subscribe

\* Mutant: the Fan-out Task is not started before the request is forwarded.
ForwardThenSpawn(c) ==
    /\ Handles(c)
    /\ msg[c] \in Commands \ ({Abort} \cup unimplementedCommandsWebsocket)
    /\ sp' = [sp EXCEPT ![c] = StoreOp(msg[c], c, IF IsWatch(msg[c])
                                                   THEN generateUniqueInt32 ELSE 0)]
    /\ pc' = [pc EXCEPT ![c] = "send"]
    /\ UNCHANGED <<maxRetries, peer, resp, shutdownChan, closeCalls, runVars, h, fan,
                   chanVars, histVars, budgetVars>>

\* Any other command: build the StoreOp; for QWATCH and SUBSCRIBE mint the
\* client identifier, attach the client and start processQwatchUpdates.
Forward(c) ==
    /\ Handles(c)
    /\ msg[c] \in Commands \ ({Abort} \cup unimplementedCommandsWebsocket)
    /\ IF IsWatch(msg[c])
       THEN /\ sp' = [sp EXCEPT ![c] = StoreOp(msg[c], c, generateUniqueInt32)]
            /\ fan' = Append(fan, [id |-> generateUniqueInt32, conn |-> c,
                                   cmd |-> msg[c], pc |-> "select"])
            /\ minted' = minted \cup {[id |-> generateUniqueInt32, conn |-> c]}
       ELSE /\ sp' = [sp EXCEPT ![c] = StoreOp(msg[c], c, 0)]
            /\ UNCHANGED <<fan, minted>>
    /\ pc' = [pc EXCEPT ![c] = "send"]
    /\ UNCHANGED <<maxRetries, peer, resp, shutdownChan, closeCalls, runVars, h, chanVars,
                   dropped, budgetVars>>

\* s.shardManager.GetShard(0).ReqChan <- sp
Enqueue(c) ==
    /\ pc[c] = "send"
    /\ ReqChan' = Append(ReqChan, sp[c])
    /\ pc' = [pc EXCEPT ![c] = "recv"]
    /\ UNCHANGED <<maxRetries, peer, resp, shutdownChan, closeCalls, runVars, msg, sp, h, fan,
                   ioChan, registered, histVars, budgetVars>>

\* resp := <-s.ioChan, then processResponse up to its call of the helper.
Receive(c) ==
    /\ pc[c] = "recv" /\ ioChan # <<>>
    /\ LET out == processResponse(sp[c].Cmd, Head(ioChan)) IN
        /\ pc' = [pc EXCEPT ![c] = IF out.fatal THEN "respond" ELSE "notify"]
        /\ \E ok \in LoopDeadlines :
             h' = [h EXCEPT ![<<"d", c>>] =
                      WriteResponseWithRetries(out.text, maxRetries, ok)]
    /\ resp' = [resp EXCEPT ![<<"d", c>>] = Head(ioChan)]
    /\ ioChan' = Tail(ioChan)
    /\ UNCHANGED <<maxRetries, peer, shutdownChan, closeCalls, runVars, msg, sp, fan,
                   ReqChan, registered, histVars, budgetVars>>

\* Mutant: the result of every helper call is checked, the notices' too.
AfterWriteChecked(p, ret) == IF ret # "nil" THEN "defer" ELSE "read"

\* Where the loop goes when the helper returns ret to a call made at position p.
AfterWrite(p, ret) == IF p = "respond" /\ ret # "nil" THEN "defer" ELSE "read"

\* The helper returned: break on an error of processResponse, else next frame.
Continue(c) ==
    /\ pc[c] \in {"notify", "respond"} /\ h[<<"d", c>>].status = "ret"
    /\ pc' = [pc EXCEPT ![c] = AfterWrite(pc[c], h[<<"d", c>>].ret)]
    /\ sp' = [sp EXCEPT ![c] = NoReq]
    /\ h' = [h EXCEPT ![<<"d", c>>] = Idle]
    /\ resp' = [resp EXCEPT ![<<"d", c>>] = NoResp]
    /\ UNCHANGED <<maxRetries, peer, shutdownChan, closeCalls, runVars, msg, fan, chanVars,
                   histVars, budgetVars>>

\* The deferred function starts conn.WriteMessage(websocket.CloseMessage, ...).
CloseHandshake(c) ==
    /\ pc[c] = "defer"
    /\ pc' = [pc EXCEPT ![c] = "closing"]
    /\ UNCHANGED <<maxRetries, peer, resp, shutdownChan, closeCalls, runVars, msg, sp, h, fan,
                   chanVars, histVars, budgetVars>>

\* The close frame is out (or not): conn.Close().
CloseConn(c) ==
    /\ pc[c] = "closing"
    /\ pc' = [pc EXCEPT ![c] = "closed"]
    /\ UNCHANGED <<maxRetries, peer, resp, shutdownChan, closeCalls, runVars, msg, sp, h, fan,
                   chanVars, histVars, budgetVars>>

\* ---------------------------------------------------------- shard layer
\* Shard 0 executes the head of its queue and answers on the queue registered
\* for the request's WorkerID; a request carrying a client registers it.
ShardExec ==
    /\ ReqChan # <<>>
    /\ LET req == Head(ReqChan) IN
        /\ \E r \in ShardResults(req.Cmd) :
              ioChan' = Append(ioChan, [type |-> "StoreResponse", result |-> r,
                                        error |-> "", kind |-> "res", n |-> req.from])
        /\ registered' = IF req.Client # 0 THEN registered \cup {req.Client}
                         ELSE registered
    /\ ReqChan' = Tail(ReqChan)
    /\ UNCHANGED <<maxRetries, peer, resp, shutdownChan, closeCalls, runVars, loopVars, h, fan,
                   histVars, budgetVars>>

\* ---------------------------------------------------------- Fan-out Task
\* Mutant: no filter, every task takes every event for its own.
MatchesAny(id, clientIdentifierID) == TRUE

\* if resp.ClientIdentifierID == clientIdentifierID
Matches(id, clientIdentifierID) == id = clientIdentifierID

\* case resp := <-s.qwatchResponseChan: the channel is unbuffered, one waiting
\* task receives the event the store sends for a registered client.
QwatchReceive(k, id, results) ==
    /\ k <= Len(fan) /\ fan[k].pc = "select"
    /\ id \in registered /\ eventsLeft > 0
    /\ eventsLeft' = eventsLeft - 1
    /\ \E r \in results :
         LET ev == [type |-> "QwatchResponse", result |-> r, error |-> "",
                    kind |-> "upd", n |-> id]
             out == processResponse(fan[k].cmd, ev)
         IN IF Matches(ev.n, fan[k].id)
            THEN /\ fan' = [fan EXCEPT ![k].pc = IF out.fatal THEN "respond"
                                                 ELSE "notify"]
                 /\ \E ok \in LoopDeadlines :
                      h' = [h EXCEPT ![<<"f", k>>] =
                               WriteResponseWithRetries(out.text, maxRetries, ok)]
                 /\ resp' = [resp EXCEPT ![<<"f", k>>] = ev]
                 /\ dropped' = dropped
            ELSE /\ dropped' = dropped \cup {id}
                 /\ UNCHANGED <<fan, h, resp>>
    /\ UNCHANGED <<maxRetries, peer, shutdownChan, closeCalls, runVars, loopVars, chanVars,
                   minted, framesLeft>>

\* case <-s.shutdownChan
FanShutdown(k) ==
    /\ k <= Len(fan) /\ fan[k].pc = "select"
    /\ shutdownChan = "closed"
    /\ fan' = [fan EXCEPT ![k].pc = "done"]
    /\ UNCHANGED <<maxRetries, peer, resp, shutdownChan, closeCalls, runVars, loopVars, h,
                   chanVars, histVars, budgetVars>>

\* processResponse returned: log and return on an error, else select again.
FanContinue(k) ==
    /\ k <= Len(fan) /\ fan[k].pc \in {"notify", "respond"}
    /\ h[<<"f", k>>].status = "ret"
    /\ fan' = [fan EXCEPT ![k].pc =
                  IF AfterWrite(fan[k].pc, h[<<"f", k>>].ret) = "defer" THEN "done"
                  ELSE "select"]
    /\ h' = [h EXCEPT ![<<"f", k>>] = Idle]
    /\ resp' = [resp EXCEPT ![<<"f", k>>] = NoResp]
    /\ UNCHANGED <<maxRetries, peer, shutdownChan, closeCalls, runVars, loopVars, chanVars,
                   histVars, budgetVars>>

\* ------------------------------------------------------------------- spec
Next ==
    \/ WatcherSelect \/ WatcherShutdown \/ ServeReturns \/ RunReturns
    \/ \E c \in Conns :
         \/ Accept(c) \/ UpgradeFails(c)
         \/ \E f \in Frames : ReadMessage(c, f)
         \/ ReadFails(c) \/ EmptyCommand(c) \/ ParseFails(c) \/ AbortCmd(c)
         \/ Unimplemented(c) \/ Forward(c)
         \/ Enqueue(c) \/ Receive(c) \/ Continue(c)
         \/ CloseHandshake(c) \/ CloseConn(c)
    \/ ShardExec
    \/ \E k \in FanIds :
         \/ \E id \in FanIds : QwatchReceive(k, id, UpdateResults)
         \/ FanShutdown(k) \/ FanContinue(k)
    \/ \E t \in Tasks :
         \/ HelperWrite(t, LoopWriteOutcomes, LoopJitters)
         \/ HelperWake(t, LoopDeadlines)

Spec == Init /\ [][Next]_vars

\* The steps the server takes by itself: everything but the clients' frames
\* and connection attempts and the store's update events.
Progress ==
    \/ WatcherSelect \/ WatcherShutdown \/ ServeReturns \/ RunReturns
    \/ \E c \in Conns :
         \/ ReadFails(c) \/ EmptyCommand(c) \/ ParseFails(c) \/ AbortCmd(c)
         \/ Unimplemented(c) \/ Forward(c)
         \/ Enqueue(c) \/ Receive(c) \/ Continue(c)
         \/ CloseHandshake(c) \/ CloseConn(c)
    \/ ShardExec
    \/ \E k \in FanIds : FanShutdown(k) \/ FanContinue(k)
    \/ \E t \in Tasks :
         \/ HelperWrite(t, LoopWriteOutcomes, LoopJitters)
         \/ HelperWake(t, LoopDeadlines)

\* ------------------------------------ the server under a cancellable context
\* Spec runs the server as TestMain does, under context.Background() and with
\* a listener that only stops when it is shut down.  SpecR adds a caller that
\* may cancel the context and a listener that may fail by itself.
NextR == Next \/ CtxCancel \/ WatcherCtxDone \/ ServeFails

SpecR == Init /\ [][NextR]_vars

ProgressR == Progress \/ WatcherCtxDone

\* ------------------------------------------ one connection and its client
\* Connection 1 alone, with a client that may go away; the steps of the
\* server's goroutines are weakly fair, the clients' and the store's are not.
LoopStep(c) ==
    \/ ReadOnDead(c)
    \/ ReadFails(c) \/ EmptyCommand(c) \/ ParseFails(c) \/ AbortCmd(c)
    \/ Unimplemented(c) \/ Forward(c)
    \/ Enqueue(c) \/ Receive(c) \/ Continue(c)
    \/ CloseHandshake(c) \/ CloseConn(c)

ProgressD ==
    \/ WatcherSelect \/ WatcherShutdown \/ ServeReturns \/ RunReturns
    \/ LoopStep(1)
    \/ ShardExec
    \/ \E k \in FanIds : FanShutdown(k) \/ FanContinue(k)
    \/ \E t \in Tasks :
         \/ HelperWrite(t, LoopWriteOutcomes, LoopJitters)
         \/ HelperWake(t, LoopDeadlines)

NextD ==
    \/ Accept(1) \/ Disconnect(1)
    \/ \E f \in Frames : ReadMessage(1, f)
    \/ \E k, id \in FanIds : QwatchReceive(k, id, UpdateResults)
    \/ ProgressD

SpecD == Init /\ [][NextD]_vars /\ WF_vars(ProgressD)

\* ------------------------------------------- the write helper on its own
\* One call of WriteResponseWithRetries by connection 1's loop, under every
\* retry budget, with every outcome of SetWriteDeadline and WriteMessage.
HelperTexts == {Notice(ReadFailedNotice), Notice(ParseFailedNotice),
                Notice(NotImplementedNotice)}

InitW ==
    /\ maxRetries \in 0..MaxRetriesCfg
    /\ shutdownChan = "open"
    /\ closeCalls = 0
    /\ ctx = "live"
    /\ listener = "open"
    /\ watcherPc = "select"
    /\ servePc = "serve"
    /\ runPc = "wait"
    /\ err = "nil"
    /\ pc = [c \in Conns |-> IF c = 1 THEN "notify" ELSE "new"]
    /\ peer = [c \in Conns |-> "up"]
    /\ msg = [c \in Conns |-> NoFrame]
    /\ sp = [c \in Conns |-> NoReq]
    /\ resp = [t \in Tasks |-> NoResp]
    /\ \E text \in HelperTexts, ok \in BOOLEAN :
         h = [t \in Tasks |-> IF t = <<"d", 1>>
                              THEN WriteResponseWithRetries(text, maxRetries, ok)
                              ELSE Idle]
    /\ fan = <<>>
    /\ ReqChan = <<>>
    /\ ioChan = <<>>
    /\ registered = {}
    /\ minted = {}
    /\ dropped = {}
    /\ framesLeft = 0
    /\ eventsLeft = 0

NextW ==
    \/ HelperWrite(<<"d", 1>>, WriteOutcomes, Jitters)
    \/ HelperWake(<<"d", 1>>, BOOLEAN)

SpecW == InitW /\ [][NextW]_vars

\* ------------------------------------------------ the transcoder on its own
\* The sentinel codes as the store hands them over: a migrated command's
\* result is the code itself, an unmigrated command's result and an update
\* event carry the code's RESP bytes.
SentinelCodes == 1..Len(respArr)
SentinelResult(cmd, i) ==
    IF cmd \in WorkerCmdsMeta THEN Val("RespType", i - 1, "")
    ELSE Val("bytes", 0, RespEncoding[i])
SentinelUpdates == {Val("bytes", 0, RespEncoding[i]) : i \in SentinelCodes}

\* Connection 1 has forwarded a command and the shard has answered it with a
\* sentinel; after QWATCH/SUBSCRIBE its Fan-out Task waits for update events.
InitT ==
    /\ maxRetries \in LoopRetryConfigs
    /\ shutdownChan = "open"
    /\ closeCalls = 0
    /\ ctx = "live"
    /\ listener = "open"
    /\ watcherPc = "select"
    /\ servePc = "serve"
    /\ runPc = "wait"
    /\ err = "nil"
    /\ pc = [c \in Conns |-> IF c = 1 THEN "recv" ELSE "new"]
    /\ peer = [c \in Conns |-> "up"]
    /\ msg = [c \in Conns |-> NoFrame]
    /\ resp = [t \in Tasks |-> NoResp]
    /\ h = [t \in Tasks |-> Idle]
    /\ ReqChan = <<>>
    /\ dropped = {}
    /\ framesLeft = 0
    /\ eventsLeft = MaxEvents
    /\ \E cmd \in Commands \ ({Abort} \cup unimplementedCommandsWebsocket),
          i \in SentinelCodes :
         /\ sp = [c \in Conns |-> IF c = 1
                                  THEN StoreOp(cmd, 1, IF IsWatch(cmd) THEN 1 ELSE 0)
                                  ELSE NoReq]
         /\ fan = IF IsWatch(cmd)
                  THEN <<[id |-> 1, conn |-> 1, cmd |-> cmd, pc |-> "select"]>>
                  ELSE <<>>
         /\ minted = IF IsWatch(cmd) THEN {[id |-> 1, conn |-> 1]} ELSE {}
         /\ registered = IF IsWatch(cmd) THEN {1} ELSE {}
         /\ ioChan = <<[type |-> "StoreResponse", result |-> SentinelResult(cmd, i),
                        error |-> "", kind |-> "res", n |-> 1]>>

NextT ==
    \/ Receive(1) \/ Continue(1)
    \/ QwatchReceive(1, 1, SentinelUpdates) \/ FanContinue(1)
    \/ \E t \in Tasks :
         \/ HelperWrite(t, LoopWriteOutcomes, LoopJitters)
         \/ HelperWake(t, LoopDeadlines)

SpecT == InitT /\ [][NextT]_vars

\* ================================================================ claims
LiveTasks == {t \in Tasks : TaskLive(t)}
Calling(t) == h[t].status # "idle"

\* C1: an update event carrying client identifier X is written only by the
\* Fan-out Task bound to X, and only to the transport of the connection whose
\* QWATCH/SUBSCRIBE minted X; no other task ever has such an update to write.
C1_UpdateOnlyToItsSubscriber ==
    \A t \in LiveTasks :
        (Calling(t) /\ h[t].text.kind = "upd") =>
            /\ t[1] = "f"
            /\ fan[t[2]].id = h[t].text.n
            /\ [id |-> h[t].text.n, conn |-> TaskConn(t)] \in minted

\* An update has been written to its subscriber while a Fan-out Task of
\* another connection was reading the same stream.
C1_Witness ==
    \E k, j \in 1..Len(fan) :
        /\ fan[k].conn # fan[j].conn
        /\ fan[j].id \in registered
        /\ h[<<"f", k>>].text.kind = "upd"
        /\ h[<<"f", k>>].written

\* C2: every update event emitted with a subscriber's identifier is written to
\* that subscriber's transport: as long as shutdown has not occurred and the
\* subscriber's Fan-out Task runs, no event for it is consumed without a write.
C2_EveryUpdateReachesItsSubscriber ==
    \A id \in dropped :
        \/ shutdownChan = "closed"
        \/ \A k \in 1..Len(fan) : fan[k].id = id => fan[k].pc = "done"

\* C3: the response a Dispatch Loop receives and transcodes is the shard's
\* response to the request that this loop enqueued.
C3_ResponseToOwnRequest ==
    \A c \in Conns :
        (Calling(<<"d", c>>) /\ h[<<"d", c>>].text.kind = "res") =>
            h[<<"d", c>>].text.n = c

\* C4: after ABORT, once the server has nothing left to do by itself, the
\* listener is shut down and every Dispatch Loop and Fan-out Task has exited.
C4_AbortStopsEveryTask ==
    (shutdownChan = "closed" /\ ~ENABLED Progress) =>
        /\ listener = "closed"
        /\ \A c \in Conns : pc[c] \in {"new", "failed", "closed"}
        /\ \A k \in 1..Len(fan) : fan[k].pc = "done"

\* C5: close(s.shutdownChan) is executed at most once.
C5_ShutdownClosedOnce == closeCalls <= 1

\* C6: at most one task is inside a framed write on a connection's transport.
C6_OneWriterPerTransport == \A c \in Conns : Cardinality(Writers(c)) <= 1

\* C7: QUNWATCH never reaches the shard layer and never starts a Fan-out Task;
\* the step that handles it calls the write helper with the fixed notice and
\* changes neither the shard's queue nor the Fan-out Tasks, and when that call
\* returns the loop reads the next frame.
C7_NoTraceOfQunwatch ==
    /\ \A i \in 1..Len(ReqChan) : ReqChan[i].Cmd # Qunwatch
    /\ \A c \in Conns : sp[c].Cmd # Qunwatch
    /\ \A k \in 1..Len(fan) : fan[k].cmd # Qunwatch

C7_HandlesQunwatch(c) ==
    (pc[c] = "got" /\ msg[c] = Qunwatch /\ pc'[c] # "got") =>
        /\ pc'[c] = "notify"
        /\ h'[<<"d", c>>].text = Notice(NotImplementedNotice)
        /\ h'[<<"d", c>>].status # "idle"
        /\ UNCHANGED <<ReqChan, fan, sp, shutdownChan>>

C7_ThenNextFrame(c) ==
    (/\ pc[c] = "notify"
     /\ h[<<"d", c>>].text = Notice(NotImplementedNotice)
     /\ pc'[c] # "notify") => pc'[c] = "read"

C7_QunwatchIsOnlyAnswered ==
    /\ []C7_NoTraceOfQunwatch
    /\ [][\A c \in Conns : C7_HandlesQunwatch(c) /\ C7_ThenNextFrame(c)]_vars

\* The notice has been written in answer to a QUNWATCH.
C7_Witness ==
    \E c \in Conns :
        /\ pc[c] = "notify"
        /\ h[<<"d", c>>].text = Notice(NotImplementedNotice)
        /\ h[<<"d", c>>].written

\* C8: a connection has at most one outstanding ShardRequest, and none when
\* its Dispatch Loop reads the next frame: the command was answered first.
Count(q, P(_)) == Cardinality({i \in 1..Len(q) : P(q[i])})

Outstanding(c) ==
    LET asked(r) == r.from = c
        answered(r) == r.n = c
    IN  Count(ReqChan, asked) + Count(ioChan, answered)

C8_StrictRequestResponse ==
    \A c \in Conns :
        /\ Outstanding(c) <= 1
        /\ pc[c] \in {"read", "got"} => Outstanding(c) = 0

\* C9: a WriteMessage failure with EPIPE or ECONNRESET makes the helper return
\* an error at once: it is the call's last write attempt, and no sleep follows.
C9_ResetFailsAtOnce ==
    \A t \in LiveTasks :
        h[t].lastErr \in {EPIPE, ECONNRESET} =>
            /\ h[t].status = "ret"
            /\ h[t].ret \in {"broken pipe", "connection reset by peer"}
            /\ h[t].calls = h[t].attempts + 1
            /\ Len(h[t].sleeps) = h[t].attempts

\* A peer reset on the third attempt, after two retried failures.
C9_Witness ==
    \E t \in LiveTasks :
        /\ h[t].lastErr = ECONNRESET
        /\ h[t].attempts = 2
        /\ h[t].status = "ret"

\* C10: a call that ends in a successful write after N EAGAIN failures returns
\* nil, has made at most maxRetries write attempts, has slept N times, and
\* each sleep's base delay exceeds the one before.
C10_RetriesThenSuccess ==
    \A t \in LiveTasks :
        (h[t].status = "ret" /\ h[t].written) =>
            /\ h[t].ret = "nil"
            /\ h[t].calls = h[t].eagains + 1
            /\ h[t].calls <= maxRetries
            /\ Len(h[t].sleeps) = h[t].eagains
            /\ \A i \in 1..Len(h[t].sleeps) :
                 /\ h[t].sleeps[i] > 0
                 /\ i > 1 => h[t].sleeps[i - 1] < h[t].sleeps[i]

\* Two EAGAIN failures and then a successful write.
C10_Witness ==
    \E t \in LiveTasks :
        /\ h[t].status = "ret" /\ h[t].written
        /\ h[t].eagains = 2

\* C11: after the context is cancelled, once the server has nothing left to do
\* by itself, the listener is shut down and every Fan-out Task and every
\* Dispatch Loop has exited, as after ABORT.
C11_CancelStopsEveryTask ==
    (ctx = "cancelled" /\ ~ENABLED ProgressR) =>
        /\ listener = "closed"
        /\ \A k \in 1..Len(fan) : fan[k].pc = "done"
        /\ \A c \in Conns : pc[c] \in {"new", "failed", "closed"}

\* C12: Run returns only after both supervisory goroutines are done; it
\* returns the listener's own error unless the context was cancelled; and once
\* the serve goroutine has ended with a listener error and the server has
\* nothing left to do by itself, Run has returned that error.
C12_RunReturnsListenerError ==
    /\ runPc = "returned" => (watcherPc = "done" /\ servePc = "done")
    /\ (runPc = "returned" /\ ctx = "live") => err \in {"listen error", "ErrServerClosed"}
    /\ (servePc = "done" /\ err = "listen error" /\ ~ENABLED ProgressR) =>
          runPc = "returned"

\* C13: a response whose value is a sentinel code, whether it arrives as the
\* code itself (migrated path) or as the code's RESP bytes (decoded path), in
\* a shard result or in an update event, is transcoded to the JSON value that
\* is exactly the code's literal text of respArr.
SentinelOf(v) ==
    {i \in SentinelCodes : v = Val("RespType", i - 1, "")
                             \/ v = Val("bytes", 0, RespEncoding[i])}

C13_SentinelLiteralOnEveryPath ==
    \A t \in LiveTasks :
        Calling(t) =>
            \A i \in SentinelOf(resp[t].result) :
                h[t].text.body = "\"" \o respArr[i] \o "\""

\* C14: whenever a helper call made by a Dispatch Loop, for a transcoded
\* response or for a fixed notice, has returned an error, the loop's next
\* step leaves the loop.
C14_TerminalWriteEndsLoop ==
    [][\A c \in Conns :
         (/\ pc[c] \in {"notify", "respond"}
          /\ h[<<"d", c>>].status = "ret" /\ h[<<"d", c>>].ret # "nil"
          /\ pc'[c] # pc[c]) => pc'[c] = "defer"]_vars

\* C15: a failed read, a parse failure and an unimplemented command are
\* answered with a notice, a transcoding failure likewise; after a notice,
\* whatever the helper returned, the loop reads the next frame; and the loop
\* leaves only on ABORT or when the write of a response has failed.
C15_FailedRead(c) ==
    (/\ pc[c] = "got" /\ pc'[c] # "got"
     /\ msg[c] \in {ReadError, BadFrame} \cup unimplementedCommandsWebsocket)
        => pc'[c] = "notify"

C15_FailedTranscoding(c) ==
    (pc[c] = "recv" /\ pc'[c] # "recv" /\ h'[<<"d", c>>].text.kind = "notice")
        => pc'[c] = "notify"

C15_NoticeThenNextFrame(c) ==
    (pc[c] = "notify" /\ pc'[c] # "notify") => pc'[c] = "read"

C15_LeavesOnlyOn(c) ==
    (pc[c] # "defer" /\ pc'[c] = "defer") =>
        \/ pc[c] = "got" /\ msg[c] = Abort
        \/ /\ pc[c] = "respond"
           /\ h[<<"d", c>>].text.kind = "res"
           /\ h[<<"d", c>>].ret # "nil"

C15_OnlyWriteFailureEndsLoop ==
    [][\A c \in Conns : /\ C15_FailedRead(c) /\ C15_FailedTranscoding(c)
                         /\ C15_NoticeThenNextFrame(c) /\ C15_LeavesOnlyOn(c)]_vars

\* A read has failed, the notice has been handed to the helper and the helper
\* has returned: the loop is reading the next frame.
C15_Witness ==
    \E c \in Conns :
        /\ pc[c] = "read" /\ msg[c] = ReadError
        /\ h[<<"d", c>>] = Idle

\* C16: a call makes at most maxRetries write attempts; a call that has
\* returned after maxRetries attempts that all failed with EAGAIN (none at
\* all when maxRetries is 0) has returned nil although nothing was written,
\* and its caller goes on as after a successful write.
C16_ExhaustionReturnsNil ==
    \A t \in LiveTasks :
        /\ h[t].calls <= maxRetries
        /\ (/\ h[t].status = "ret"
            /\ h[t].calls = maxRetries
            /\ h[t].eagains = h[t].calls) =>
               /\ h[t].ret = "nil"
               /\ ~h[t].written
               /\ AfterWrite("respond", h[t].ret) = "read"

\* The budget of more than one attempt is spent on EAGAIN failures.
C16_Witness ==
    \E t \in LiveTasks :
        /\ h[t].status = "ret" /\ ~h[t].written
        /\ maxRetries > 1 /\ h[t].eagains = maxRetries

\* C18: the step that handles a frame parsed as an empty command takes the
\* loop back to reading and changes nothing else: no helper call is started,
\* nothing is enqueued, no Fan-out Task is spawned, shutdownChan is untouched.
C18_EmptyCommandOnlyMovesOn ==
    [][\A c \in Conns :
         (pc[c] = "got" /\ msg[c] = EmptyFrame /\ pc'[c] # "got") =>
             /\ pc'[c] = "read"
             /\ UNCHANGED <<h, resp, sp, fan, ReqChan, ioChan, registered,
                            shutdownChan, closeCalls>>]_vars

\* An empty command has been handled: the loop is reading again, and nothing
\* was written, enqueued or spawned for it.
C18_Witness ==
    \E c \in Conns :
        /\ pc[c] = "read" /\ msg[c] = EmptyFrame
        /\ framesLeft = MaxFrames - 1
        /\ h[<<"d", c>>] = Idle /\ fan = <<>> /\ ReqChan = <<>> /\ ioChan = <<>>
        /\ shutdownChan = "open"

\* C19: no task enters conn.WriteMessage on a transport that its connection's
\* Dispatch Loop has closed on its way out.
C19_NoWriteAfterClose ==
    [][\A t \in LiveTasks :
         (h[t].status # "writing" /\ h'[t].status = "writing") =>
             pc[TaskConn(t)] # "closed"]_vars

\* C20: a request that is enqueued, or about to be, for QWATCH or SUBSCRIBE
\* carries the client built from a minted identifier, and the Fan-out Task
\* bound to that identifier and to the requesting connection has already been
\* started; a request for any other command carries no client, and no Fan-out
\* Task was started for such a command.
C20_Prepared(r) ==
    IF IsWatch(r.Cmd)
    THEN /\ r.Client # 0
         /\ [id |-> r.Client, conn |-> r.from] \in minted
         /\ \E k \in 1..Len(fan) :
               fan[k].id = r.Client /\ fan[k].conn = r.from /\ fan[k].cmd = r.Cmd
    ELSE r.Client = 0

C20_FanoutStartedBeforeForwarding ==
    /\ \A i \in 1..Len(ReqChan) : C20_Prepared(ReqChan[i])
    /\ \A c \in Conns : pc[c] = "send" => C20_Prepared(sp[c])
    /\ \A k \in 1..Len(fan) : IsWatch(fan[k].cmd)

\* A SUBSCRIBE request and a GET request wait in the shard's queue.
C20_Witness ==
    \E i, j \in 1..Len(ReqChan) :
        /\ ReqChan[i].Cmd = Subscribe /\ ReqChan[j].Cmd = Get
        /\ Len(fan) = 1

\* C17: once a connection's client is gone, its Dispatch Loop eventually
\* exits and the transport is closed.
C17_DeadConnectionIsDestroyed ==
    \A c \in Conns : (peer[c] = "gone") ~> (pc[c] = "closed")

====
